---- MODULE Spec2Model ----
(***************************************************************************)
(* Model of the purchase / monthly-invoice storage layer of Fintrack       *)
(* (src/storage.ts, src/schema.ts).                                        *)
(*                                                                         *)
(* Money is kept in integer cents, as the decimal(10,2) columns store it.  *)
(* A purchase date is the value of the `date` column (year, month 1..12,   *)
(* day); an invoice month is the `YYYY-MM` text the code formats.          *)
(* Row ids (gen_random_uuid()) are fresh numbers drawn from nextId.        *)
(***************************************************************************)
EXTENDS Integers, Sequences, FiniteSets, TLC

VARIABLES
  cards,      \* table cards: set of [id, closingDay]
  purchases,  \* table purchases: set of installment rows
  invoices,   \* table monthly_invoices: set of [id, month, cardId, totalValue]
  nextId,     \* next fresh row id
  tzWest,     \* TRUE when the server's local time zone is west of UTC
  procs,      \* request handlers in flight (interleaved specification)
  raced,      \* history: a handler has taken a step while another was in flight
  lastOp      \* history: the last storage operation that completed

vars == <<cards, purchases, invoices, nextId, tzWest, procs, raced, lastOp>>

(***************************************************************************)
(* Bounds of the model                                                     *)
(***************************************************************************)
MaxInstallments == 2        \* totalInstallments in the sequential specification
MaxId == 6                  \* row ids the sequential specification may hand out
MaxAllocInstallments == 3   \* totalInstallments in the allocation specification
MaxSplitInstallments == 7   \* totalInstallments in the value-split specification
MaxCents == 60              \* totalValue (cents) in the value-split specification
MaxOps == 2                 \* operations started in the interleaved specification
MaxUpdateId == 3            \* row ids the update specification may hand out
MaxFailId == 3              \* row ids the failure specification may hand out

CardIds == {"c1", "c2"}
ClosingDays == {10}
Names == {"tv"}
Categories == {"home"}
TotalValues == {100}
AllocYears == {2023, 2024}
Procs == {1, 2}

(***************************************************************************)
(* JavaScript Date arithmetic (local-time fields of a Date object)         *)
(***************************************************************************)
IsLeapYear(y) == (y % 4 = 0 /\ y % 100 # 0) \/ y % 400 = 0

\* m is a calendar month 1..12
DaysInMonth(y, m) ==
  IF m = 2 THEN (IF IsLeapYear(y) THEN 29 ELSE 28)
  ELSE IF m \in {4, 6, 9, 11} THEN 30 ELSE 31

\* Variant: the month index wraps without carrying into the year
MakeDateNoYearCarry(y, monthIndex, d) ==
  LET mm == monthIndex % 12
      dim == DaysInMonth(y, mm + 1)
  IN IF d <= dim
     THEN [year |-> y, month |-> mm, date |-> d]
     ELSE [year |-> y, month |-> (mm + 1) % 12, date |-> d - dim]

\* A Date built from a year, a month index (0-based, may exceed 11) and a day
\* of month 1..31: the month index carries into the year, and a day past the
\* end of the month rolls over into the following month.
MakeDate(y, monthIndex, d) ==
  LET yy == y + (monthIndex \div 12)
      mm == monthIndex % 12
      dim == DaysInMonth(yy, mm + 1)
  IN IF d <= dim
     THEN [year |-> yy, month |-> mm, date |-> d]
     ELSE [year |-> IF mm = 11 THEN yy + 1 ELSE yy,
           month |-> (mm + 1) % 12,
           date |-> d - dim]

\* Date.prototype.setMonth(monthIndex): keeps the year and the day of month
setMonth(dt, monthIndex) == MakeDate(dt.year, monthIndex, dt.date)

\* new Date("YYYY-MM-DD"): the instant is UTC midnight of that day; the local
\* fields read it back in the server's time zone, which is the same calendar
\* day at or east of UTC and the previous calendar day west of UTC.
newDate(purchaseDate, west) ==
  IF ~west
  THEN [year |-> purchaseDate.year, month |-> purchaseDate.month - 1,
        date |-> purchaseDate.day]
  ELSE IF purchaseDate.day > 1
  THEN [year |-> purchaseDate.year, month |-> purchaseDate.month - 1,
        date |-> purchaseDate.day - 1]
  ELSE IF purchaseDate.month > 1
  THEN [year |-> purchaseDate.year, month |-> purchaseDate.month - 2,
        date |-> DaysInMonth(purchaseDate.year, purchaseDate.month - 1)]
  ELSE [year |-> purchaseDate.year - 1, month |-> 11, date |-> 31]

\* String.prototype.padStart(2, '0')
padStart2(s) == IF Len(s) < 2 THEN "0" \o s ELSE s

\* `${getFullYear()}-${String(getMonth() + 1).padStart(2, '0')}`
formatInvoiceMonth(dt) ==
  ToString(dt.year) \o "-" \o padStart2(ToString(dt.month + 1))

\* The first invoice date: the purchase date, moved one month on when the
\* purchase day is on or after the card's closing day.
firstInvoiceDate(purchaseDate, closingDay) ==
  IF purchaseDate.date >= closingDay
  THEN setMonth(purchaseDate, purchaseDate.month + 1)
  ELSE purchaseDate

\* The date of installment i (0-based)
installmentDate(first, i) == setMonth(first, first.month + i)

(***************************************************************************)
(* Amounts                                                                 *)
(***************************************************************************)
\* Variant: the quotient is truncated to the cent instead of rounded
installmentValueTruncated(totalValue, totalInstallments, tieUp) ==
  totalValue \div totalInstallments

\* totalValue / totalInstallments is a double; its decimal text is stored in
\* a decimal(10,2) column, which rounds to the nearest cent.  When the exact
\* quotient lies half-way between two cents the double may fall on either
\* side of the half (0.15 / 6 = 0.024999999999999998, 0.01 / 2 = 0.005), so
\* the direction of a tie is an outcome of the floating-point division.
installmentValueStored(totalValue, totalInstallments, tieUp) ==
  LET q == totalValue \div totalInstallments
      r == totalValue % totalInstallments
  IN IF 2 * r > totalInstallments THEN q + 1
     ELSE IF 2 * r < totalInstallments THEN q
     ELSE IF tieUp THEN q + 1 ELSE q

\* SUM(installment_value) over a set of rows
RECURSIVE sumInstallmentValue(_)
sumInstallmentValue(rows) ==
  IF rows = {} THEN 0
  ELSE LET r == CHOOSE x \in rows : TRUE
       IN r.installmentValue + sumInstallmentValue(rows \ {r})

(***************************************************************************)
(* The store and its statements                                            *)
(***************************************************************************)
DB == [cards |-> cards, purchases |-> purchases, invoices |-> invoices,
       nextId |-> nextId]

\* select from cards where id = id
getCard(db, id) == {c \in db.cards : c.id = id}

\* insert into purchases ... returning
insertPurchaseRow(db, purchaseData) ==
  [db EXCEPT !.purchases = @ \cup {[purchaseData EXCEPT !.id = db.nextId]},
             !.nextId = @ + 1]

\* Variant: the sum is not restricted to the month
selectSumAnyMonth(db, month, cardId) ==
  sumInstallmentValue({p \in db.purchases : p.cardId = cardId})

\* Variant: the sum is not restricted to the card
selectSumAnyCard(db, month, cardId) ==
  sumInstallmentValue({p \in db.purchases : p.invoiceMonth = month})

\* select COALESCE(SUM(installment_value), 0) where invoice_month, card_id
selectSum(db, month, cardId) ==
  sumInstallmentValue({p \in db.purchases :
                         p.invoiceMonth = month /\ p.cardId = cardId})

\* select from monthly_invoices where month, card_id
selectExisting(db, month, cardId) ==
  {inv \in db.invoices : inv.month = month /\ inv.cardId = cardId}

\* Variant: an existing row is incremented instead of overwritten
writeMonthlyInvoiceIncrement(db, existing, month, cardId, totalValue) ==
  IF existing # {}
  THEN [db EXCEPT !.invoices =
          {IF inv.month = month /\ inv.cardId = cardId
           THEN [inv EXCEPT !.totalValue = @ + totalValue] ELSE inv :
             inv \in @}]
  ELSE [db EXCEPT !.invoices = @ \cup {[id |-> db.nextId, month |-> month,
                                        cardId |-> cardId,
                                        totalValue |-> totalValue]},
                  !.nextId = @ + 1]

\* Variant: the row is only ever updated, never inserted
writeMonthlyInvoiceUpdateOnly(db, existing, month, cardId, totalValue) ==
  [db EXCEPT !.invoices =
     {IF inv.month = month /\ inv.cardId = cardId
      THEN [inv EXCEPT !.totalValue = totalValue] ELSE inv : inv \in @}]

\* The write of updateMonthlyInvoice, given what its select returned
writeMonthlyInvoice(db, existing, month, cardId, totalValue) ==
  IF existing # {}
  THEN [db EXCEPT !.invoices =
          {IF inv.month = month /\ inv.cardId = cardId
           THEN [inv EXCEPT !.totalValue = totalValue] ELSE inv : inv \in @}]
  ELSE [db EXCEPT !.invoices = @ \cup {[id |-> db.nextId, month |-> month,
                                        cardId |-> cardId,
                                        totalValue |-> totalValue]},
                  !.nextId = @ + 1]

\* Variant: a pair whose total falls to 0 loses its row
updateMonthlyInvoiceRemoveEmpty(db, month, cardId, totalValue) ==
  IF totalValue = 0
  THEN [db EXCEPT !.invoices =
          {inv \in @ : ~(inv.month = month /\ inv.cardId = cardId)}]
  ELSE writeMonthlyInvoice(db, selectExisting(db, month, cardId), month,
                           cardId, totalValue)


updateMonthlyInvoice(db, month, cardId, totalValue) ==
  writeMonthlyInvoice(db, selectExisting(db, month, cardId), month, cardId,
                      totalValue)

updateMonthlyInvoiceForCard(db, month, cardId) ==
  updateMonthlyInvoice(db, month, cardId, selectSum(db, month, cardId))

\* Variant: only the row of the given id is related
relatedPurchasesById(db, purchase) ==
  {p \in db.purchases : p.id = purchase.id}

\* Variant: the delete matches four columns, the purchase date is left out
relatedPurchasesAnyDate(db, purchase) ==
  {p \in db.purchases :
     /\ p.cardId = purchase.cardId
     /\ p.name = purchase.name
     /\ p.totalValue = purchase.totalValue
     /\ p.totalInstallments = purchase.totalInstallments}

\* The rows deletePurchase treats as the installments of one purchase
relatedPurchases(db, purchase) ==
  {p \in db.purchases :
     /\ p.cardId = purchase.cardId
     /\ p.purchaseDate = purchase.purchaseDate
     /\ p.name = purchase.name
     /\ p.totalValue = purchase.totalValue
     /\ p.totalInstallments = purchase.totalInstallments}

\* Variant: only the given installment and the later ones are deleted
deleteRelatedFromInstallment(db, purchase) ==
  [db EXCEPT !.purchases =
     @ \ {p \in relatedPurchases(db, purchase) :
            p.currentInstallment >= purchase.currentInstallment}]

\* delete from purchases where (the same five columns)
deleteRelated(db, purchase) ==
  [db EXCEPT !.purchases = @ \ relatedPurchases(db, purchase)]

(***************************************************************************)
(* The handlers, run to completion                                         *)
(***************************************************************************)
NoDate == [year |-> 0, month |-> 0, day |-> 0]
NoInput == [cardId |-> "", purchaseDate |-> NoDate, name |-> "",
            category |-> "", totalValue |-> 0, totalInstallments |-> 0]
NoRow == [id |-> 0, cardId |-> "", purchaseDate |-> NoDate, name |-> "",
          category |-> "", totalValue |-> 0, totalInstallments |-> 0,
          currentInstallment |-> 0, installmentValue |-> 0,
          invoiceMonth |-> ""]

\* Variant: currentInstallment is the 0-based loop index
purchaseDataZeroBased(insertPurchase, installmentValue, first, i) ==
  [id |-> 0,
   cardId |-> insertPurchase.cardId,
   purchaseDate |-> insertPurchase.purchaseDate,
   name |-> insertPurchase.name,
   category |-> insertPurchase.category,
   totalValue |-> insertPurchase.totalValue,
   totalInstallments |-> insertPurchase.totalInstallments,
   currentInstallment |-> i,
   installmentValue |-> installmentValue,
   invoiceMonth |-> formatInvoiceMonth(installmentDate(first, i))]

\* purchaseData of installment i (0-based); the id is assigned by the insert
purchaseData(insertPurchase, installmentValue, first, i) ==
  [id |-> 0,
   cardId |-> insertPurchase.cardId,
   purchaseDate |-> insertPurchase.purchaseDate,
   name |-> insertPurchase.name,
   category |-> insertPurchase.category,
   totalValue |-> insertPurchase.totalValue,
   totalInstallments |-> insertPurchase.totalInstallments,
   currentInstallment |-> i + 1,
   installmentValue |-> installmentValue,
   invoiceMonth |-> formatInvoiceMonth(installmentDate(first, i))]

\* One turn of the installment loop: insert the row, refresh its month
installmentStep(db, insertPurchase, installmentValue, first, i) ==
  LET data == purchaseData(insertPurchase, installmentValue, first, i)
  IN updateMonthlyInvoiceForCard(insertPurchaseRow(db, data),
                                 data.invoiceMonth, insertPurchase.cardId)

RECURSIVE installmentLoop(_, _, _, _, _)
installmentLoop(db, insertPurchase, installmentValue, first, i) ==
  IF i >= insertPurchase.totalInstallments THEN db
  ELSE installmentLoop(
         installmentStep(db, insertPurchase, installmentValue, first, i),
         insertPurchase, installmentValue, first, i + 1)

\* Variant: the installments are written before the card is checked
createPurchaseLateCardCheck(db, insertPurchase, west, tieUp) ==
  LET installmentValue ==
        installmentValueStored(insertPurchase.totalValue,
                               insertPurchase.totalInstallments, tieUp)
      card == getCard(db, insertPurchase.cardId)
      closingDay == IF card = {} THEN 1
                    ELSE (CHOOSE x \in card : TRUE).closingDay
      first == firstInvoiceDate(newDate(insertPurchase.purchaseDate, west),
                                closingDay)
      after == installmentLoop(db, insertPurchase, installmentValue, first, 0)
  IN IF card = {}
     THEN [db |-> after, error |-> "Card not found", returned |-> NoRow]
     ELSE [db |-> after, error |-> "",
           returned |-> CHOOSE p \in after.purchases : p.id = db.nextId]


\* Variant: the last element of purchaseList is returned
createPurchaseReturnsLast(db, insertPurchase, west, tieUp) ==
  LET installmentValue ==
        installmentValueStored(insertPurchase.totalValue,
                               insertPurchase.totalInstallments, tieUp)
      card == getCard(db, insertPurchase.cardId)
  IN IF card = {}
     THEN [db |-> db, error |-> "Card not found", returned |-> NoRow]
     ELSE LET c == CHOOSE x \in card : TRUE
              first == firstInvoiceDate(
                         newDate(insertPurchase.purchaseDate, west),
                         c.closingDay)
              after == installmentLoop(db, insertPurchase, installmentValue,
                                       first, 0)
          IN [db |-> after, error |-> "",
              returned |-> CHOOSE p \in after.purchases :
                             \A q \in after.purchases : q.id <= p.id]


\* Variant: up to the failing insert the rows are written without a refresh
RECURSIVE installmentLoopFailingNoRefresh(_, _, _, _, _, _)
installmentLoopFailingNoRefresh(db, insertPurchase, value, first, i, failAt) ==
  IF i >= insertPurchase.totalInstallments \/ i + 1 = failAt THEN db
  ELSE installmentLoopFailingNoRefresh(
         insertPurchaseRow(db, purchaseData(insertPurchase, value, first, i)),
         insertPurchase, value, first, i + 1, failAt)

\* The installment loop when the insert of installment failAt (1-based)
\* throws: the exception leaves the loop and the handler at that insert
RECURSIVE installmentLoopFailing(_, _, _, _, _, _)
installmentLoopFailing(db, insertPurchase, value, first, i, failAt) ==
  IF i >= insertPurchase.totalInstallments \/ i + 1 = failAt THEN db
  ELSE installmentLoopFailing(
         installmentStep(db, insertPurchase, value, first, i),
         insertPurchase, value, first, i + 1, failAt)

\* Variant: the inserts of a failed call are rolled back
createPurchaseFailingRollback(db, insertPurchase, west, tieUp, failAt) ==
  IF getCard(db, insertPurchase.cardId) = {}
  THEN [db |-> db, error |-> "Card not found", returned |-> NoRow]
  ELSE [db |-> db, error |-> "insert failed", returned |-> NoRow]

\* createPurchase when the insert of installment failAt throws: the error
\* propagates to the caller, nothing is caught or retried
createPurchaseFailing(db, insertPurchase, west, tieUp, failAt) ==
  LET installmentValue ==
        installmentValueStored(insertPurchase.totalValue,
                               insertPurchase.totalInstallments, tieUp)
      card == getCard(db, insertPurchase.cardId)
  IN IF card = {}
     THEN [db |-> db, error |-> "Card not found", returned |-> NoRow]
     ELSE LET c == CHOOSE x \in card : TRUE
              first == firstInvoiceDate(
                         newDate(insertPurchase.purchaseDate, west),
                         c.closingDay)
          IN [db |-> installmentLoopFailing(db, insertPurchase,
                                            installmentValue, first, 0,
                                            failAt),
              error |-> "insert failed", returned |-> NoRow]


createPurchase(db, insertPurchase, west, tieUp) ==
  LET installmentValue ==
        installmentValueStored(insertPurchase.totalValue,
                               insertPurchase.totalInstallments, tieUp)
      card == getCard(db, insertPurchase.cardId)
  IN IF card = {}
     THEN [db |-> db, error |-> "Card not found", returned |-> NoRow]
     ELSE LET c == CHOOSE x \in card : TRUE
              first == firstInvoiceDate(
                         newDate(insertPurchase.purchaseDate, west),
                         c.closingDay)
              after == installmentLoop(db, insertPurchase, installmentValue,
                                       first, 0)
          IN [db |-> after, error |-> "",
              returned |-> CHOOSE p \in after.purchases : p.id = db.nextId]

\* The refresh loop of deletePurchase over the collected invoice months
RECURSIVE refreshMonths(_, _, _)
refreshMonths(db, months, cardId) ==
  IF months = {} THEN db
  ELSE LET m == CHOOSE x \in months : TRUE
       IN refreshMonths(updateMonthlyInvoiceForCard(db, m, cardId),
                        months \ {m}, cardId)

\* Variant: an id that matches nothing falls back to the rows of the table
deletePurchaseAnyRow(db, id) ==
  LET found == {p \in db.purchases : p.id = id}
      purchaseToDelete == IF found = {} THEN db.purchases ELSE found
  IN IF purchaseToDelete = {} THEN db
     ELSE LET purchase == CHOOSE p \in purchaseToDelete : TRUE
              invoiceMonths == {p.invoiceMonth :
                                  p \in relatedPurchases(db, purchase)}
          IN refreshMonths(deleteRelated(db, purchase), invoiceMonths,
                           purchase.cardId)


deletePurchase(db, id) ==
  LET purchaseToDelete == {p \in db.purchases : p.id = id}
  IN IF purchaseToDelete = {} THEN db
     ELSE LET purchase == CHOOSE p \in purchaseToDelete : TRUE
              invoiceMonths == {p.invoiceMonth :
                                  p \in relatedPurchases(db, purchase)}
          IN refreshMonths(deleteRelated(db, purchase), invoiceMonths,
                           purchase.cardId)

\* update purchases set (the fields of the partial record) where id = id
updatePurchase(db, id, patch) ==
  [db EXCEPT !.purchases =
     {IF p.id = id
      THEN [f \in DOMAIN p |-> IF f \in DOMAIN patch THEN patch[f] ELSE p[f]]
      ELSE p : p \in @}]

\* insert into cards
createCard(db, id, closingDay) ==
  [db EXCEPT !.cards = @ \cup {[id |-> id, closingDay |-> closingDay]}]

\* Variant: the invoice summaries do not cascade
deleteCardKeepInvoices(db, id) ==
  [db EXCEPT !.cards = {c \in @ : c.id # id},
             !.purchases = {p \in @ : p.cardId # id}]

\* delete from cards; purchases and monthly_invoices reference cards.id with
\* onDelete: "cascade"
deleteCard(db, id) ==
  [db EXCEPT !.cards = {c \in @ : c.id # id},
             !.purchases = {p \in @ : p.cardId # id},
             !.invoices = {inv \in @ : inv.cardId # id}]

(***************************************************************************)
(* Sequential specification: handlers complete one after another           *)
(***************************************************************************)
NoOp == [op |-> "none", input |-> NoInput, id |-> 0, cardId |-> "",
         removed |-> {}, returned |-> NoRow, error |-> "", firstId |-> 0,
         failedAt |-> 0]

IdleProc == [pc |-> "idle", op |-> "none", input |-> NoInput, id |-> 0,
             installmentValue |-> 0, first |-> MakeDate(0, 0, 1), i |-> 0,
             purchase |-> NoRow, months |-> {}, month |-> "", sum |-> 0,
             existing |-> {}, runs |-> 0]

SetDB(db) ==
  /\ cards' = db.cards
  /\ purchases' = db.purchases
  /\ invoices' = db.invoices
  /\ nextId' = db.nextId

Init ==
  /\ cards = {}
  /\ purchases = {}
  /\ invoices = {}
  /\ nextId = 1
  /\ tzWest \in BOOLEAN
  /\ procs = [p \in Procs |-> IdleProc]
  /\ raced = FALSE
  /\ lastOp = NoOp

PurchaseDates == {[year |-> 2024, month |-> 1, day |-> 30],
                  [year |-> 2024, month |-> 12, day |-> 20]}

Inputs(dates, totals, maxN) ==
  [cardId : CardIds, purchaseDate : dates, name : Names,
   category : Categories, totalValue : totals, totalInstallments : 1..maxN]

CreateCard ==
  \E id \in CardIds, closingDay \in ClosingDays :
    /\ getCard(DB, id) = {}
    /\ SetDB(createCard(DB, id, closingDay))
    /\ lastOp' = [NoOp EXCEPT !.op = "createCard"]
    /\ UNCHANGED <<tzWest, procs, raced>>

DeleteCard ==
  \E id \in CardIds :
    /\ getCard(DB, id) # {}
    /\ SetDB(deleteCard(DB, id))
    /\ lastOp' = [NoOp EXCEPT !.op = "deleteCard", !.cardId = id,
                              !.removed = {p \in purchases : p.cardId = id}]
    /\ UNCHANGED <<tzWest, procs, raced>>

DoCreatePurchase(insertPurchase, tieUp) ==
  LET r == createPurchase(DB, insertPurchase, tzWest, tieUp)
  IN /\ SetDB(r.db)
     /\ lastOp' = [NoOp EXCEPT !.op = "createPurchase",
                               !.input = insertPurchase,
                               !.returned = r.returned,
                               !.error = r.error]
     /\ UNCHANGED <<tzWest, procs, raced>>

CreatePurchase ==
  \E insertPurchase \in Inputs(PurchaseDates, TotalValues, MaxInstallments),
     tieUp \in BOOLEAN :
    /\ createPurchase(DB, insertPurchase, tzWest, tieUp).db.nextId
         <= MaxId + 1
    /\ DoCreatePurchase(insertPurchase, tieUp)

DeletePurchase ==
  \E id \in {p.id : p \in purchases} \cup {nextId} :
    LET db == deletePurchase(DB, id)
    IN /\ SetDB(db)
       /\ lastOp' = [NoOp EXCEPT !.op = "deletePurchase", !.id = id,
                                 !.removed = purchases \ db.purchases]
       /\ UNCHANGED <<tzWest, procs, raced>>

Next == CreateCard \/ DeleteCard \/ CreatePurchase \/ DeletePurchase

Spec == Init /\ [][Next]_vars

(***************************************************************************)
(* Allocation specification: one createPurchase on a store holding one     *)
(* card, for every purchase date of AllocYears and every closing day       *)
(***************************************************************************)
AllocDates ==
  {d \in [year : AllocYears, month : 1..12, day : 1..31] :
     d.day <= DaysInMonth(d.year, d.month)}

InitAlloc ==
  /\ cards \in {{[id |-> "c1", closingDay |-> c]} : c \in 1..31}
  /\ purchases = {}
  /\ invoices = {}
  /\ nextId = 1
  /\ tzWest \in BOOLEAN
  /\ procs = [p \in Procs |-> IdleProc]
  /\ raced = FALSE
  /\ lastOp = NoOp

AllocCreatePurchase ==
  \E purchaseDate \in AllocDates, n \in 1..MaxAllocInstallments :
    /\ lastOp.op = "none"
    /\ DoCreatePurchase([cardId |-> "c1", purchaseDate |-> purchaseDate,
                         name |-> "tv", category |-> "home",
                         totalValue |-> 100, totalInstallments |-> n], TRUE)

NextAlloc == AllocCreatePurchase

SpecAlloc == InitAlloc /\ [][NextAlloc]_vars

(***************************************************************************)
(* Value-split specification: one createPurchase for every totalValue up   *)
(* to MaxCents and every totalInstallments up to MaxSplitInstallments      *)
(***************************************************************************)
InitSplit ==
  /\ cards = {[id |-> "c1", closingDay |-> 10]}
  /\ purchases = {}
  /\ invoices = {}
  /\ nextId = 1
  /\ tzWest \in BOOLEAN
  /\ procs = [p \in Procs |-> IdleProc]
  /\ raced = FALSE
  /\ lastOp = NoOp

SplitCreatePurchase ==
  \E totalValue \in 0..MaxCents, n \in 1..MaxSplitInstallments,
     tieUp \in BOOLEAN :
    /\ lastOp.op = "none"
    /\ DoCreatePurchase([cardId |-> "c1",
                         purchaseDate |-> [year |-> 2024, month |-> 3,
                                           day |-> 14],
                         name |-> "tv", category |-> "home",
                         totalValue |-> totalValue,
                         totalInstallments |-> n], tieUp)

NextSplit == SplitCreatePurchase

SpecSplit == InitSplit /\ [][NextSplit]_vars

(***************************************************************************)
(* Interleaved specification: two request handlers run createPurchase and  *)
(* deletePurchase on one card; every awaited database call is one step.    *)
(***************************************************************************)
ConcInstallments == {1, 2}

ConcInputs ==
  [cardId : {"c1"},
   purchaseDate : {[year |-> 2024, month |-> 12, day |-> 20]},
   name : Names, category : Categories, totalValue : TotalValues,
   totalInstallments : ConcInstallments]

InitConc ==
  /\ cards = {[id |-> "c1", closingDay |-> 10]}
  /\ purchases = {}
  /\ invoices = {}
  /\ nextId = 1
  /\ tzWest = FALSE
  /\ procs = [p \in Procs |-> IdleProc]
  /\ raced = FALSE
  /\ lastOp = NoOp

RECURSIVE SumRuns(_)
SumRuns(ps) ==
  IF ps = {} THEN 0
  ELSE LET q == CHOOSE x \in ps : TRUE
       IN procs[q].runs + SumRuns(ps \ {q})

OpsStarted == SumRuns(Procs)

\* A step of handler p races when another handler is in flight
Step(p, proc) ==
  /\ procs' = [procs EXCEPT ![p] = proc]
  /\ raced' = (raced \/ \E q \in Procs \ {p} : procs[q].pc # "idle")
  /\ UNCHANGED <<tzWest, lastOp>>

Finished(proc) == [IdleProc EXCEPT !.runs = proc.runs]

\* createPurchase is called: installmentValue is computed, getCard is issued
StartCreatePurchase(p) ==
  \E insertPurchase \in ConcInputs, tieUp \in BOOLEAN :
    /\ procs[p].pc = "idle"
    /\ OpsStarted < MaxOps
    /\ Step(p, [procs[p] EXCEPT
                  !.pc = "getCard", !.op = "createPurchase",
                  !.input = insertPurchase, !.runs = @ + 1,
                  !.installmentValue =
                     installmentValueStored(insertPurchase.totalValue,
                                            insertPurchase.totalInstallments,
                                            tieUp)])
    /\ UNCHANGED <<cards, purchases, invoices, nextId>>

\* await this.getCard(...): throws when the card is missing
GetCard(p) ==
  LET proc == procs[p]
      card == getCard(DB, proc.input.cardId)
  IN /\ proc.pc = "getCard"
     /\ IF card = {}
        THEN Step(p, Finished(proc))
        ELSE Step(p, [proc EXCEPT
                        !.pc = "insert", !.i = 0,
                        !.first =
                           firstInvoiceDate(
                             newDate(proc.input.purchaseDate, tzWest),
                             (CHOOSE c \in card : TRUE).closingDay)])
     /\ UNCHANGED <<cards, purchases, invoices, nextId>>

\* await db.insert(purchases).values(purchaseData).returning()
InsertInstallment(p) ==
  LET proc == procs[p]
      data == purchaseData(proc.input, proc.installmentValue, proc.first,
                           proc.i)
  IN /\ proc.pc = "insert"
     /\ SetDB(insertPurchaseRow(DB, data))
     /\ Step(p, [proc EXCEPT !.pc = "sum", !.month = data.invoiceMonth])

\* updateMonthlyInvoiceForCard: await db.select({ sum })
SelectSum(p) ==
  LET proc == procs[p]
      cardId == IF proc.op = "createPurchase" THEN proc.input.cardId
                ELSE proc.purchase.cardId
  IN /\ proc.pc = "sum"
     /\ Step(p, [proc EXCEPT !.pc = "existing",
                             !.sum = selectSum(DB, proc.month, cardId)])
     /\ UNCHANGED <<cards, purchases, invoices, nextId>>

\* updateMonthlyInvoice: await db.select().from(monthlyInvoices)
SelectExisting(p) ==
  LET proc == procs[p]
      cardId == IF proc.op = "createPurchase" THEN proc.input.cardId
                ELSE proc.purchase.cardId
  IN /\ proc.pc = "existing"
     /\ Step(p, [proc EXCEPT
                   !.pc = "write",
                   !.existing = {inv.id : inv \in
                                   selectExisting(DB, proc.month, cardId)}])
     /\ UNCHANGED <<cards, purchases, invoices, nextId>>

\* updateMonthlyInvoice: await db.update(...) or await db.insert(...), then
\* the next turn of the caller's loop
WriteInvoice(p) ==
  LET proc == procs[p]
      cardId == IF proc.op = "createPurchase" THEN proc.input.cardId
                ELSE proc.purchase.cardId
  IN /\ proc.pc = "write"
     /\ SetDB(writeMonthlyInvoice(DB, proc.existing, proc.month, cardId,
                                  proc.sum))
     /\ IF proc.op = "createPurchase"
        THEN IF proc.i + 1 < proc.input.totalInstallments
             THEN Step(p, [proc EXCEPT !.pc = "insert", !.i = @ + 1])
             ELSE Step(p, Finished(proc))
        ELSE IF proc.months # {}
             THEN Step(p, [proc EXCEPT !.pc = "nextMonth"])
             ELSE Step(p, Finished(proc))

\* deletePurchase is called: the select by id is issued
StartDeletePurchase(p) ==
  \E id \in {r.id : r \in purchases} \cup {nextId} :
    /\ procs[p].pc = "idle"
    /\ OpsStarted < MaxOps
    /\ Step(p, [procs[p] EXCEPT !.pc = "selectById",
                                !.op = "deletePurchase",
                                !.id = id, !.runs = @ + 1])
    /\ UNCHANGED <<cards, purchases, invoices, nextId>>

\* await db.select().from(purchases).where(eq(purchases.id, id))
SelectById(p) ==
  LET proc == procs[p]
      purchaseToDelete == {r \in purchases : r.id = proc.id}
  IN /\ proc.pc = "selectById"
     /\ IF purchaseToDelete = {}
        THEN Step(p, Finished(proc))
        ELSE Step(p, [proc EXCEPT
                        !.pc = "selectRelated",
                        !.purchase = CHOOSE r \in purchaseToDelete : TRUE])
     /\ UNCHANGED <<cards, purchases, invoices, nextId>>

\* await db.select() of the related rows; their distinct invoice months
SelectRelated(p) ==
  LET proc == procs[p]
  IN /\ proc.pc = "selectRelated"
     /\ Step(p, [proc EXCEPT
                   !.pc = "delete",
                   !.months = {r.invoiceMonth :
                                 r \in relatedPurchases(DB, proc.purchase)}])
     /\ UNCHANGED <<cards, purchases, invoices, nextId>>

\* await db.delete(purchases).where(...)
DeleteRelated(p) ==
  LET proc == procs[p]
  IN /\ proc.pc = "delete"
     /\ SetDB(deleteRelated(DB, proc.purchase))
     /\ IF proc.months # {}
        THEN Step(p, [proc EXCEPT !.pc = "nextMonth"])
        ELSE Step(p, Finished(proc))

\* for (const invoiceMonth of invoiceMonths): the months come in the order
\* the select returned the rows, which the query leaves open
NextInvoiceMonth(p) ==
  LET proc == procs[p]
  IN /\ proc.pc = "nextMonth"
     /\ \E m \in proc.months :
          Step(p, [proc EXCEPT !.pc = "sum", !.month = m,
                               !.months = @ \ {m}])
     /\ UNCHANGED <<cards, purchases, invoices, nextId>>

NextConc ==
  \E p \in Procs :
    \/ StartCreatePurchase(p)
    \/ GetCard(p)
    \/ InsertInstallment(p)
    \/ SelectSum(p)
    \/ SelectExisting(p)
    \/ WriteInvoice(p)
    \/ StartDeletePurchase(p)
    \/ SelectById(p)
    \/ SelectRelated(p)
    \/ DeleteRelated(p)
    \/ NextInvoiceMonth(p)

SpecConc == InitConc /\ [][NextConc]_vars

(***************************************************************************)
(* Vocabulary of the properties                                            *)
(***************************************************************************)
\* The installment rows of a (month, card) pair
PairRows(month, cardId) ==
  {p \in purchases : p.invoiceMonth = month /\ p.cardId = cardId}

\* The sum of installmentValue over a set of rows, added up row id by row id
RECURSIVE TotalUpTo(_, _)
TotalUpTo(k, rows) ==
  IF k = 0 THEN 0
  ELSE LET row == {p \in rows : p.id = k}
       IN (IF row = {} THEN 0 ELSE (CHOOSE p \in row : TRUE).installmentValue)
          + TotalUpTo(k - 1, rows)

PairTotal(month, cardId) == TotalUpTo(nextId - 1, PairRows(month, cardId))

PairInvoices(month, cardId) ==
  {inv \in invoices : inv.month = month /\ inv.cardId = cardId}

\* Rows that deletePurchase cannot tell apart
SameKey(a, b) ==
  /\ a.cardId = b.cardId
  /\ a.purchaseDate = b.purchaseDate
  /\ a.name = b.name
  /\ a.totalValue = b.totalValue
  /\ a.totalInstallments = b.totalInstallments

MonthText == <<"01", "02", "03", "04", "05", "06",
               "07", "08", "09", "10", "11", "12">>

\* The text of calendar month m (1..12) of year y, advanced by k months
YearMonth(y, m, k) ==
  LET idx == y * 12 + (m - 1) + k
  IN ToString(idx \div 12) \o "-" \o MonthText[(idx % 12) + 1]

\* The closing day of the card a createPurchase input names
ClosingDayOf(input) ==
  (CHOOSE c \in cards : c.id = input.cardId).closingDay

Abs(x) == IF x < 0 THEN -x ELSE x

(***************************************************************************)
(* C1                                                                      *)
(***************************************************************************)
\* C1: after any sequence of completed createPurchase, deletePurchase and
\* deleteCard operations, the totalValue of every MonthlyInvoice row equals
\* the sum of installmentValue over the purchase rows of its (month, card).
C1_InvoiceTotalMatchesSum ==
  \A inv \in invoices : inv.totalValue = PairTotal(inv.month, inv.cardId)

\* A delete has removed a purchase and an invoice still sums two other rows.
C1_Witness ==
  /\ lastOp.op = "deletePurchase"
  /\ lastOp.removed # {}
  /\ \E inv \in invoices :
       /\ Cardinality(PairRows(inv.month, inv.cardId)) >= 2
       /\ inv.totalValue > 0

(***************************************************************************)
(* C2                                                                      *)
(***************************************************************************)
\* C2: createPurchase persists exactly N installment rows whose invoiceMonth
\* values, in currentInstallment order, are N consecutive calendar months
\* starting from the month of the first installment, none repeated and none
\* skipped.  Stated for a server whose local time is UTC, where the day the
\* code reads is the day of the purchase date.
C2_ConsecutiveMonths ==
  (lastOp.op = "createPurchase" /\ lastOp.error = "" /\ ~tzWest) =>
    /\ Cardinality(purchases) = lastOp.input.totalInstallments
    /\ \E y \in 2022..2026, m \in 1..12 :
         \A p \in purchases :
           p.invoiceMonth = YearMonth(y, m, p.currentInstallment - 1)

(***************************************************************************)
(* C3                                                                      *)
(***************************************************************************)
\* C3: for a purchase on day D and a card closing on day C, the invoiceMonth
\* of the first installment is the purchase date's own month when D < C and
\* the month immediately following it when D >= C.  Stated for a server
\* whose local time is UTC, where the day the code reads is D.
C3_FirstInvoiceMonthRule ==
  (lastOp.op = "createPurchase" /\ lastOp.error = "" /\ ~tzWest) =>
    \A p \in purchases :
      p.currentInstallment = 1 =>
        p.invoiceMonth =
          YearMonth(p.purchaseDate.year, p.purchaseDate.month,
                    IF p.purchaseDate.day < ClosingDayOf(lastOp.input)
                    THEN 0 ELSE 1)

(***************************************************************************)
(* C4                                                                      *)
(***************************************************************************)
RolloverDate == [year |-> 2024, month |-> 12, day |-> 20]

IsRolloverExample ==
  /\ lastOp.op = "createPurchase"
  /\ lastOp.input.purchaseDate = RolloverDate
  /\ lastOp.input.totalInstallments = 3
  /\ ClosingDayOf(lastOp.input) = 10

\* C4: installment months that pass December continue in January of the
\* next year, the month written as two digits; a purchase dated 2024-12-20 on
\* a card closing on day 10 with 3 installments is billed in 2025-01, 2025-02
\* and 2025-03, in that order.
C4_DecemberRollover ==
  (lastOp.op = "createPurchase" /\ lastOp.error = "") =>
    /\ IsRolloverExample =>
         /\ Cardinality(purchases) = 3
         /\ \A p \in purchases :
              p.invoiceMonth =
                <<"2025-01", "2025-02", "2025-03">>[p.currentInstallment]
    /\ \A p \in purchases : Len(p.invoiceMonth) = 7
    /\ \A p, q \in purchases :
         \A y \in 2022..2026 :
           (/\ q.currentInstallment = p.currentInstallment + 1
            /\ p.invoiceMonth = YearMonth(y, 12, 0)
            /\ q.invoiceMonth # p.invoiceMonth)
           => q.invoiceMonth = YearMonth(y + 1, 1, 0)

C4_Witness ==
  /\ IsRolloverExample
  /\ \E p \in purchases :
       p.currentInstallment = 3 /\ p.invoiceMonth = "2025-03"

(***************************************************************************)
(* C5                                                                      *)
(***************************************************************************)
\* C5 as stated: the stored installmentValue of the N rows created by one
\* createPurchase sum to the stored totalValue, also when totalValue is not
\* evenly divisible by N.
C5_SumEqualsTotal ==
  (lastOp.op = "createPurchase" /\ lastOp.error = "") =>
    /\ Cardinality(purchases) = lastOp.input.totalInstallments
    /\ \A p \in purchases :
         TotalUpTo(nextId - 1, purchases) = p.totalValue

\* C5 amended: every stored installmentValue is totalValue / N rounded to
\* the nearest cent; the N stored values sum to totalValue when N divides
\* totalValue (in cents), and otherwise to within N/2 cents of it.
C5_SumWithinRounding ==
  (lastOp.op = "createPurchase" /\ lastOp.error = "") =>
    LET n == lastOp.input.totalInstallments
        total == lastOp.input.totalValue
    IN /\ Cardinality(purchases) = n
       /\ \A p \in purchases :
            /\ p.totalValue = total
            /\ 2 * Abs(n * p.installmentValue - total) <= n
            /\ total % n = 0 => n * p.installmentValue = total

C5_Witness ==
  /\ lastOp.op = "createPurchase"
  /\ lastOp.input.totalValue % lastOp.input.totalInstallments # 0
  /\ \E p \in purchases :
       lastOp.input.totalInstallments * p.installmentValue
         # lastOp.input.totalValue

(***************************************************************************)
(* C7                                                                      *)
(***************************************************************************)
\* C7: after deletePurchase has removed a purchase, every (month, card) pair
\* that held one of its installments still has its MonthlyInvoice row, and
\* the row's total is the sum of the installment values that remain for the
\* pair, 0 when none remain.
C7_DeleteRefreshesRows ==
  lastOp.op = "deletePurchase" =>
    \A r \in lastOp.removed :
      /\ PairInvoices(r.invoiceMonth, r.cardId) # {}
      /\ \A inv \in PairInvoices(r.invoiceMonth, r.cardId) :
           /\ inv.totalValue = PairTotal(r.invoiceMonth, r.cardId)
           /\ PairRows(r.invoiceMonth, r.cardId) = {} => inv.totalValue = 0

\* One month of the removed purchase keeps a row at 0, another month keeps
\* the total of a purchase that remains.
C7_Witness ==
  /\ lastOp.op = "deletePurchase"
  /\ \E r \in lastOp.removed :
       /\ PairRows(r.invoiceMonth, r.cardId) = {}
       /\ \E inv \in PairInvoices(r.invoiceMonth, r.cardId) :
            inv.totalValue = 0
  /\ \E r \in lastOp.removed :
       /\ PairRows(r.invoiceMonth, r.cardId) # {}
       /\ \E inv \in PairInvoices(r.invoiceMonth, r.cardId) :
            inv.totalValue > 0

(***************************************************************************)
(* C6                                                                      *)
(***************************************************************************)
\* The (month, card) pairs a refresh may be asked for: those of the rows in
\* the store, and one month that holds nothing
RefreshMonths ==
  {p.invoiceMonth : p \in purchases} \cup {inv.month : inv \in invoices}
    \cup {"2030-01"}

RefreshOnce(month, cardId) == updateMonthlyInvoiceForCard(DB, month, cardId)

RefreshTwice(month, cardId) ==
  updateMonthlyInvoiceForCard(RefreshOnce(month, cardId), month, cardId)

\* C6: the refresh is idempotent: in every state of the store, handlers in
\* flight included, refreshing a (month, card) pair twice in a row leaves the
\* same MonthlyInvoice rows and the same stored total as refreshing it once.
C6_RefreshIdempotent ==
  \A month \in RefreshMonths, cardId \in CardIds :
    /\ RefreshTwice(month, cardId) = RefreshOnce(month, cardId)
    /\ \A inv \in RefreshTwice(month, cardId).invoices :
         (inv.month = month /\ inv.cardId = cardId) =>
           inv.totalValue = PairTotal(month, cardId)

\* A pair whose stored row is stale, so that the first refresh rewrites it,
\* and a pair without a row, so that the first refresh inserts one.
C6_Witness ==
  /\ \E month \in RefreshMonths, cardId \in CardIds :
       /\ PairInvoices(month, cardId) # {}
       /\ PairTotal(month, cardId) > 0
       /\ RefreshOnce(month, cardId).invoices # invoices
       /\ RefreshTwice(month, cardId) = RefreshOnce(month, cardId)
  /\ \E month \in RefreshMonths, cardId \in CardIds :
       /\ PairInvoices(month, cardId) = {}
       /\ PairRows(month, cardId) # {}
       /\ RefreshOnce(month, cardId).nextId = nextId + 1
       /\ RefreshTwice(month, cardId) = RefreshOnce(month, cardId)

(***************************************************************************)
(* C8                                                                      *)
(***************************************************************************)
AllCompleted == \A p \in Procs : procs[p].pc = "idle"

\* C8: interleaved createPurchase / deletePurchase operations on the same
\* (month, card) can all complete and leave a MonthlyInvoice total that
\* differs from the sum of the pair's installment values (the witness); such
\* a difference arises only when the steps of two handlers interleaved.
C8_MismatchOnlyAfterRace ==
  (/\ AllCompleted
   /\ \E inv \in invoices :
        inv.totalValue # PairTotal(inv.month, inv.cardId))
  => raced

\* Both handlers have completed one operation each, the pair has a single
\* row, and its total is not the sum of the pair's rows: a lost update.
C8_Witness ==
  /\ AllCompleted
  /\ \A p \in Procs : procs[p].runs >= 1
  /\ \E inv \in invoices :
       /\ Cardinality(PairInvoices(inv.month, inv.cardId)) = 1
       /\ PairRows(inv.month, inv.cardId) # {}
       /\ inv.totalValue # PairTotal(inv.month, inv.cardId)

(***************************************************************************)
(* C9                                                                      *)
(***************************************************************************)
\* C9: in every reachable state there is at most one MonthlyInvoice row for
\* each (month, card) pair, also when the select-then-insert-or-update steps
\* of two refreshes of the same pair interleave.
C9_OneRowPerPair ==
  \A a, b \in invoices :
    (a.month = b.month /\ a.cardId = b.cardId) => a.id = b.id

(***************************************************************************)
(* C10                                                                     *)
(***************************************************************************)
\* Two rows of the store before the delete that belong to two distinct
\* purchases with the same card, date, name, totalValue and totalInstallments
Twins(a, b) ==
  /\ a.id # b.id
  /\ SameKey(a, b)
  /\ a.currentInstallment = b.currentInstallment

\* C10: two distinct purchases with the same card, purchaseDate, name,
\* totalValue and totalInstallments are deleted together: deletePurchase on
\* the id of one installment of either removes every row of both.
C10_TwinsDeletedTogether ==
  lastOp.op = "deletePurchase" =>
    \A t \in purchases \cup lastOp.removed :
      t.id = lastOp.id =>
        \A a, b \in purchases \cup lastOp.removed :
          (Twins(a, b) /\ SameKey(a, t)) =>
            /\ a \in lastOp.removed
            /\ b \in lastOp.removed
            /\ a \notin purchases
            /\ b \notin purchases

C10_Witness ==
  /\ lastOp.op = "deletePurchase"
  /\ \E a, b \in lastOp.removed :
       /\ Twins(a, b)
       /\ a.totalInstallments = 2
       /\ Cardinality(lastOp.removed) = 4
  /\ \A p \in purchases : \A r \in lastOp.removed : ~SameKey(p, r)

(***************************************************************************)
(* C11                                                                     *)
(***************************************************************************)
\* C11: deletePurchase given the id of any installment k of a purchase
\* removes all N sibling rows: every installment 1..N of the purchase is
\* among the removed rows and no row with its (cardId, purchaseDate, name,
\* totalValue, totalInstallments) remains, whichever id was passed.
C11_AllSiblingsRemoved ==
  lastOp.op = "deletePurchase" =>
    \A t \in lastOp.removed :
      t.id = lastOp.id =>
        /\ \A p \in purchases : ~SameKey(p, t)
        /\ \A k \in 1..t.totalInstallments :
             \E r \in lastOp.removed :
               SameKey(r, t) /\ r.currentInstallment = k

\* The id passed was that of the second of two installments.
C11_Witness ==
  /\ lastOp.op = "deletePurchase"
  /\ \E t \in lastOp.removed :
       /\ t.id = lastOp.id
       /\ t.currentInstallment = 2
       /\ t.totalInstallments = 2
       /\ \E r \in lastOp.removed : r.currentInstallment = 1

(***************************************************************************)
(* C12                                                                     *)
(***************************************************************************)
\* C12: after deleteCard(id) no purchase row and no MonthlyInvoice row with
\* that cardId remains, whatever purchases the card had.
C12_DeleteCardCascades ==
  lastOp.op = "deleteCard" =>
    /\ \A p \in purchases : p.cardId # lastOp.cardId
    /\ \A inv \in invoices : inv.cardId # lastOp.cardId
    /\ \A c \in cards : c.id # lastOp.cardId

\* The deleted card had installments; the other card keeps its rows.
C12_Witness ==
  /\ lastOp.op = "deleteCard"
  /\ Cardinality(lastOp.removed) >= 2
  /\ purchases # {}
  /\ invoices # {}

(***************************************************************************)
(* C13                                                                     *)
(***************************************************************************)
StoreUnchanged ==
  /\ cards' = cards
  /\ purchases' = purchases
  /\ invoices' = invoices
  /\ nextId' = nextId

\* C13: a createPurchase whose cardId resolves to no card fails with the
\* card-not-found error and leaves the store as it was: no purchase row is
\* inserted and no MonthlyInvoice row is created or modified.
C13_CardNotFoundLeavesStore ==
  [][(/\ lastOp'.op = "createPurchase"
      /\ getCard(DB, lastOp'.input.cardId) = {})
     => (/\ lastOp'.error = "Card not found"
         /\ lastOp'.returned = NoRow
         /\ StoreUnchanged)]_vars

\* The failed call found a store that holds rows of another card.
C13_Witness ==
  /\ lastOp.op = "createPurchase"
  /\ lastOp.error = "Card not found"
  /\ getCard(DB, lastOp.input.cardId) = {}
  /\ purchases # {}
  /\ invoices # {}

(***************************************************************************)
(* C14                                                                     *)
(***************************************************************************)
\* C14: a deletePurchase whose id matches no purchase row is a silent no-op:
\* it completes without error, deletes no purchase row and creates or
\* changes no MonthlyInvoice row.
C14_UnknownIdIsNoOp ==
  [][(/\ lastOp'.op = "deletePurchase"
      /\ \A p \in purchases : p.id # lastOp'.id)
     => (/\ lastOp'.error = ""
         /\ lastOp'.removed = {}
         /\ StoreUnchanged)]_vars

\* The id was unknown while the store held rows.
C14_Witness ==
  /\ lastOp.op = "deletePurchase"
  /\ lastOp.removed = {}
  /\ \A p \in purchases : p.id # lastOp.id
  /\ purchases # {}
  /\ invoices # {}

(***************************************************************************)
(* C15                                                                     *)
(***************************************************************************)
\* C15: a successful createPurchase returns the persisted record of the
\* first installment: the returned record is a row of the store, the first
\* one the call inserted, has currentInstallment = 1, and its invoiceMonth is
\* the month of the first invoice date.
C15_ReturnsFirstInstallment ==
  (lastOp.op = "createPurchase" /\ lastOp.error = "") =>
    LET first == firstInvoiceDate(
                   newDate(lastOp.input.purchaseDate, tzWest),
                   ClosingDayOf(lastOp.input))
    IN /\ lastOp.returned \in purchases
       /\ lastOp.returned.currentInstallment = 1
       /\ lastOp.returned.invoiceMonth
            = YearMonth(first.year, first.month + 1, 0)
       /\ \A p \in purchases :
            p.id >= lastOp.returned.id =>
              /\ SameKey(p, lastOp.returned)
              /\ p.currentInstallment >= 1

C15_Witness ==
  /\ lastOp.op = "createPurchase"
  /\ lastOp.error = ""
  /\ lastOp.input.totalInstallments = 3
  /\ lastOp.returned.currentInstallment = 1
  /\ \E p \in purchases :
       /\ p.currentInstallment = 3
       /\ p.invoiceMonth # lastOp.returned.invoiceMonth

(***************************************************************************)
(* C16                                                                     *)
(***************************************************************************)
\* C16: the N records of one createPurchase carry currentInstallment 1..N,
\* each exactly once and in insertion order, and all hold the cardId,
\* purchaseDate, name, category, totalValue and totalInstallments of the
\* input and one common installmentValue.
C16_SequenceAndSharedFields ==
  (lastOp.op = "createPurchase" /\ lastOp.error = "") =>
    LET n == lastOp.input.totalInstallments
    IN /\ Cardinality(purchases) = n
       /\ \A k \in 1..n :
            Cardinality({p \in purchases : p.currentInstallment = k}) = 1
       /\ \A p, q \in purchases :
            /\ p.currentInstallment < q.currentInstallment => p.id < q.id
            /\ p.installmentValue = q.installmentValue
       /\ \A p \in purchases :
            /\ p.cardId = lastOp.input.cardId
            /\ p.purchaseDate = lastOp.input.purchaseDate
            /\ p.name = lastOp.input.name
            /\ p.category = lastOp.input.category
            /\ p.totalValue = lastOp.input.totalValue
            /\ p.totalInstallments = n

C16_Witness ==
  /\ lastOp.op = "createPurchase"
  /\ lastOp.input.totalInstallments >= 3
  /\ lastOp.input.totalValue > 0
  /\ \A k \in 1..3 : \E p \in purchases : p.currentInstallment = k

(***************************************************************************)
(* C17                                                                     *)
(***************************************************************************)
\* C17: after any sequence of completed createPurchase and deletePurchase
\* operations, every (month, card) pair that holds at least one purchase row
\* has a MonthlyInvoice row.
C17_PairWithRowsHasInvoice ==
  \A p \in purchases : PairInvoices(p.invoiceMonth, p.cardId) # {}

\* The call that produced the state inserted the invoice row right after
\* the first installment of the pair.
C17_Witness ==
  /\ lastOp.op = "createPurchase"
  /\ lastOp.error = ""
  /\ \E inv \in invoices :
       /\ inv.id = lastOp.returned.id + 1
       /\ inv.month = lastOp.returned.invoiceMonth
       /\ inv.cardId = lastOp.returned.cardId
  /\ Cardinality(invoices) >= 2

(***************************************************************************)
(* Update specification: the sequential handlers and updatePurchase        *)
(***************************************************************************)
\* Partial<Purchase> values that change the amount, the month or the card of
\* a row; card_id references cards.id, so only an existing card is accepted
Patches ==
  {[installmentValue |-> 25], [invoiceMonth |-> "2025-01"]}
    \cup {[cardId |-> c.id] : c \in cards}

UpdatePurchase ==
  \E id \in {p.id : p \in purchases} \cup {nextId}, patch \in Patches :
    LET db == updatePurchase(DB, id, patch)
    IN /\ SetDB(db)
       /\ lastOp' = [NoOp EXCEPT
                       !.op = "updatePurchase", !.id = id,
                       !.removed = purchases \ db.purchases,
                       !.returned = IF \E p \in db.purchases : p.id = id
                                    THEN CHOOSE p \in db.purchases : p.id = id
                                    ELSE NoRow]
       /\ UNCHANGED <<tzWest, procs, raced>>

UpdateCreatePurchase ==
  \E insertPurchase \in Inputs(PurchaseDates, TotalValues, MaxInstallments),
     tieUp \in BOOLEAN :
    /\ createPurchase(DB, insertPurchase, tzWest, tieUp).db.nextId
         <= MaxUpdateId + 1
    /\ DoCreatePurchase(insertPurchase, tieUp)

NextUpdate ==
  CreateCard \/ DeleteCard \/ UpdateCreatePurchase \/ DeletePurchase
    \/ UpdatePurchase

SpecUpdate == Init /\ [][NextUpdate]_vars

(***************************************************************************)
(* C18                                                                     *)
(***************************************************************************)
\* C18: the MonthlyInvoice total is recomputed on every mutation of purchase
\* rows: after updatePurchase has changed the installmentValue, invoiceMonth
\* or cardId of a row, the total of every (month, card) pair the change
\* touches (the pair the row left and the pair it is in) equals the sum of
\* installmentValue over the purchase rows of that pair.
C18_UpdateKeepsTotals ==
  lastOp.op = "updatePurchase" =>
    \A r \in lastOp.removed \cup {lastOp.returned} :
      \A inv \in PairInvoices(r.invoiceMonth, r.cardId) :
        inv.totalValue = PairTotal(r.invoiceMonth, r.cardId)

(***************************************************************************)
(* Failure specification: the sequential handlers, and createPurchase      *)
(* calls in which the database rejects the insert of one installment       *)
(***************************************************************************)
CreatePurchaseInsertFails ==
  \E insertPurchase \in Inputs(PurchaseDates, TotalValues, MaxInstallments),
     tieUp \in BOOLEAN :
    \E failAt \in 1..insertPurchase.totalInstallments :
      LET r == createPurchaseFailing(DB, insertPurchase, tzWest, tieUp,
                                     failAt)
      IN /\ getCard(DB, insertPurchase.cardId) # {}
         /\ r.db.nextId <= MaxFailId + 1
         /\ SetDB(r.db)
         /\ lastOp' = [NoOp EXCEPT !.op = "createPurchase",
                                   !.input = insertPurchase,
                                   !.error = r.error,
                                   !.firstId = nextId,
                                   !.failedAt = failAt]
         /\ UNCHANGED <<tzWest, procs, raced>>

FailCreatePurchase ==
  \E insertPurchase \in Inputs(PurchaseDates, TotalValues, MaxInstallments),
     tieUp \in BOOLEAN :
    /\ createPurchase(DB, insertPurchase, tzWest, tieUp).db.nextId
         <= MaxFailId + 1
    /\ DoCreatePurchase(insertPurchase, tieUp)

NextFail ==
  CreateCard \/ DeleteCard \/ FailCreatePurchase \/ DeletePurchase
    \/ CreatePurchaseInsertFails

SpecFail == Init /\ [][NextFail]_vars

\* The purchase rows the last call inserted
InsertedByLastOp == {p \in purchases : p.id >= lastOp.firstId}

InsertFailed == lastOp.op = "createPurchase" /\ lastOp.error = "insert failed"

(***************************************************************************)
(* C19                                                                     *)
(***************************************************************************)
\* C19: when the insert of installment k fails during createPurchase, the
\* call ends with that error, installments k..N are not inserted, nothing is
\* retried, and the k-1 installment rows already inserted stay in the store.
C19_PartialInstallmentsRemain ==
  InsertFailed =>
    /\ lastOp.returned = NoRow
    /\ Cardinality(InsertedByLastOp) = lastOp.failedAt - 1
    /\ \A k \in 1..(lastOp.failedAt - 1) :
         \E p \in InsertedByLastOp :
           /\ p.currentInstallment = k
           /\ p.cardId = lastOp.input.cardId
           /\ p.purchaseDate = lastOp.input.purchaseDate
           /\ p.totalInstallments = lastOp.input.totalInstallments
    /\ \A p \in InsertedByLastOp : p.currentInstallment < lastOp.failedAt

\* The second of two inserts failed and the first row is in the store.
C19_Witness ==
  /\ InsertFailed
  /\ lastOp.failedAt = 2
  /\ \E p \in InsertedByLastOp : p.currentInstallment = 1

(***************************************************************************)
(* C20                                                                     *)
(***************************************************************************)
\* C20: the aggregate invariant survives an insert failure: after a
\* createPurchase that stopped at a failed insert, every MonthlyInvoice
\* row's total equals the sum of installmentValue over the purchase rows of
\* its pair, and the pairs of the installments inserted before the failure
\* have their row.
C20_TotalsSurviveInsertFailure ==
  InsertFailed =>
    /\ \A inv \in invoices :
         inv.totalValue = PairTotal(inv.month, inv.cardId)
    /\ \A p \in InsertedByLastOp :
         PairInvoices(p.invoiceMonth, p.cardId) # {}

\* The row inserted before the failure shares its pair with an older row,
\* and the pair's total counts both.
C20_Witness ==
  /\ InsertFailed
  /\ lastOp.failedAt = 2
  /\ \E p \in InsertedByLastOp :
       /\ Cardinality(PairRows(p.invoiceMonth, p.cardId)) >= 2
       /\ \E inv \in PairInvoices(p.invoiceMonth, p.cardId) :
            inv.totalValue > p.installmentValue

(***************************************************************************)
(* C21                                                                     *)
(***************************************************************************)
\* The purchase a createPurchase or deletePurchase step acts on: the input
\* of the create, the row that the id of the delete selects
ActedOn ==
  IF lastOp'.op = "createPurchase" THEN lastOp'.input
  ELSE IF \E p \in purchases : p.id = lastOp'.id
       THEN CHOOSE p \in purchases : p.id = lastOp'.id
       ELSE NoRow

\* Its installments: the rows the create inserted, the rows of the purchase
\* the delete found
ActedRows ==
  IF lastOp'.op = "createPurchase"
  THEN {p \in purchases' : p.id >= nextId}
  ELSE {p \in purchases : SameKey(p, ActedOn)}

ActedMonths == {p.invoiceMonth : p \in ActedRows}

\* Rows of another card, and rows of the card with another key
OutsidePurchases(rows) == {p \in rows : ~SameKey(p, ActedOn)}

\* Invoice rows of another card, and of the card for a month that holds
\* none of the purchase's installments
OutsideInvoices(rows) ==
  {inv \in rows : inv.cardId # ActedOn.cardId \/ inv.month \notin ActedMonths}

\* C21: createPurchase and deletePurchase acting on a purchase of card c
\* leave unchanged every purchase row and every MonthlyInvoice row of any
\* other card, every purchase row of card c whose (purchaseDate, name,
\* totalValue, totalInstallments) differs from the purchase's, and every
\* MonthlyInvoice row of card c for a month that holds none of the
\* purchase's installments.
C21_FrameOfCreateAndDelete ==
  [][lastOp'.op \in {"createPurchase", "deletePurchase"}
     => (/\ OutsidePurchases(purchases') = OutsidePurchases(purchases)
         /\ OutsideInvoices(invoices') = OutsideInvoices(invoices)
         /\ cards' = cards)]_vars

\* A delete removed a purchase while the store kept a row of the same card
\* with another key, that row's invoice for another month, and a row and an
\* invoice of another card.
C21_Witness ==
  /\ lastOp.op = "deletePurchase"
  /\ \E r \in lastOp.removed :
       /\ \E q \in purchases :
            /\ q.cardId = r.cardId
            /\ ~SameKey(q, r)
            /\ \E inv \in invoices :
                 /\ inv.cardId = r.cardId
                 /\ inv.month = q.invoiceMonth
                 /\ inv.month \notin {x.invoiceMonth : x \in lastOp.removed}
                 /\ inv.totalValue > 0
       /\ \E q \in purchases : q.cardId # r.cardId
       /\ \E inv \in invoices : inv.cardId # r.cardId

====
